---- MODULE Spec2Model ----
(***************************************************************************)
(* A model of the mown crate: the owned-or-borrowed containers Mown and    *)
(* MownMut (src/lib.rs) and the example function response (examples/).     *)
(*                                                                         *)
(* The crate is generic in T.  The model instantiates T = String (a sized  *)
(* type, so T::Owned = T, as in examples/sized.rs): a value is a finite    *)
(* sequence of byte codes, ordered lexicographically.  References are      *)
(* addresses: a place in the caller's memory (store) or the inside of a    *)
(* container variable.                                                     *)
(***************************************************************************)
EXTENDS Integers, Sequences, FiniteSets, TLC

VARIABLES
    store,  \* the caller's places: Loc -> value (the referents)
    cont,   \* the container variables of the client: Slot -> container
    ret,    \* the call in progress and its result; op = "none" when idle
    hist    \* per container built as MownMut::Owned(empty) and only pushed to
            \* since: the elements pushed, in order (a history variable)

vars == <<store, cont, ret, hist>>

\* ---------------------------------------------------------------- bounds

\* longest value (string, buffer) the model builds
MaxLen == 2

\* longest tail appended to a prefix of the trigger to make an example input
MaxTail == 2

\* ---------------------------------------------------------------- values

\* the two byte codes of the model's strings: '\n' and 'H'
Elem == {10, 72}

RECURSIVE SeqsUpTo(_, _)
SeqsUpTo(S, n) ==
    IF n = 0 THEN {<<>>}
    ELSE LET shorter == SeqsUpTo(S, n - 1)
         IN  shorter \cup {Append(s, e) : s \in {t \in shorter : Len(t) = n - 1}, e \in S}

Val == SeqsUpTo(Elem, MaxLen)

\* the caller's places and the client's container variables
\* x is a `let mut` binding, y a plain `let` binding holding "H\n"
Loc == {"x", "y"}
MutLoc == {"x"}
Slot == {"a", "b"}
Fixed == <<72, 10>>

NoLoc == "none"

\* ------------------------------------------------- the underlying type T

\* <String as PartialEq>::eq
TEq(u, v) == u = v

\* <String as Ord>::cmp: lexicographic on bytes
RECURSIVE TCmp(_, _)
TCmp(u, v) ==
    IF u = <<>> /\ v = <<>> THEN "Equal"
    ELSE IF u = <<>> THEN "Less"
    ELSE IF v = <<>> THEN "Greater"
    ELSE IF Head(u) < Head(v) THEN "Less"
    ELSE IF Head(u) > Head(v) THEN "Greater"
    ELSE TCmp(Tail(u), Tail(v))

\* Option<X>
Some(x) == [some |-> TRUE, v |-> x]
None == [some |-> FALSE, v |-> NoLoc]

\* <String as PartialOrd>::partial_cmp
TPartialCmp(u, v) == Some(TCmp(u, v))

\* <String as Hash>::hash: the bytes, then 0xff, written to the hasher h
THash(v, h) == h \o v \o <<255>>

\* <String as Display>::fmt: the characters, written to the formatter f
TDisplay(v, f) == f \o v

\* char::escape_debug on the codes the model uses
EscapeDebug(c) ==
    IF c = 10 THEN <<92, 110>>
    ELSE IF c = 34 THEN <<92, 34>>
    ELSE IF c = 92 THEN <<92, 92>>
    ELSE <<c>>

RECURSIVE EscapeAll(_)
EscapeAll(v) == IF v = <<>> THEN <<>> ELSE EscapeDebug(Head(v)) \o EscapeAll(Tail(v))

\* <String as Debug>::fmt: the escaped characters between double quotes
TDebug(v, f) == f \o <<34>> \o EscapeAll(v) \o <<34>>

\* ------------------------------------------------------------ containers

\* no container: the variable is not initialised, or was dropped
Dead == [kind |-> "None", tag |-> "None", val |-> <<>>, ref |-> NoLoc]

\* Mown::Owned(v), Mown::Borrowed(&l)
NewMownOwned(v) == [kind |-> "Mown", tag |-> "Owned", val |-> v, ref |-> NoLoc]
NewMownBorrowed(l) == [kind |-> "Mown", tag |-> "Borrowed", val |-> <<>>, ref |-> l]

\* MownMut::Owned(v), MownMut::Borrowed(&mut l)
NewMownMutOwned(v) == [kind |-> "MownMut", tag |-> "Owned", val |-> v, ref |-> NoLoc]
NewMownMutBorrowed(l) == [kind |-> "MownMut", tag |-> "Borrowed", val |-> <<>>, ref |-> l]

\* references: a place of the caller, or the value inside container variable s
InStore(l) == [space |-> "store", at |-> l]
InCont(s) == [space |-> "cont", at |-> s]

\* reading through a reference
Load(r) == IF r.space = "store" THEN store[r.at] ELSE cont[r.at].val

\* ------------------------------------------------------------------ Mown

MownIsOwned(s) == cont[s].tag = "Owned"

MownIsBorrowed(s) == cont[s].tag = "Borrowed"

\* mutant: the Borrowed arm hands out the referent
MownAsMutBoth(s) == Some(IF cont[s].tag = "Owned" THEN InCont(s) ELSE InStore(cont[s].ref))

\* Owned(t) => Some(t.borrow_mut()), Borrowed(_) => None
MownAsMut(s) == IF cont[s].tag = "Owned" THEN Some(InCont(s)) ELSE None

\* *self after as_mut(&mut self): the match only borrows from it
MownAsMutSelf(s) == cont[s]

\* mutant: as_ref yields the container's own storage in both arms
MownAsRefOwn(s) == InCont(s)

\* Owned(t) => t.borrow(), Borrowed(t) => t
MownAsRef(s) == IF cont[s].tag = "Owned" THEN InCont(s) ELSE InStore(cont[s].ref)

MownDeref(s) == MownAsRef(s)

\* mutant: a derived PartialEq, which compares the variants first
MownEqDerived(a, b) ==
    cont[a].tag = cont[b].tag /\ TEq(Load(MownAsRef(a)), Load(MownAsRef(b)))

MownEq(a, b) == TEq(Load(MownAsRef(a)), Load(MownAsRef(b)))

\* the argument `other` reaches T's method by deref coercion
MownPartialCmp(a, b) == TPartialCmp(Load(MownAsRef(a)), Load(MownDeref(b)))

\* mutant: a derived Ord, which orders Owned before Borrowed
MownCmpDerived(a, b) ==
    IF cont[a].tag = cont[b].tag THEN TCmp(Load(MownAsRef(a)), Load(MownDeref(b)))
    ELSE IF cont[a].tag = "Owned" THEN "Less" ELSE "Greater"

MownCmp(a, b) == TCmp(Load(MownAsRef(a)), Load(MownDeref(b)))

MownHash(s, h) == THash(Load(MownAsRef(s)), h)

MownDisplay(s, f) == TDisplay(Load(MownAsRef(s)), f)

MownDebug(s, f) == TDebug(Load(MownAsRef(s)), f)

\* --------------------------------------------------------------- MownMut

MownMutIsOwned(s) == cont[s].tag = "Owned"

\* mutant: is_borrowed with the arms of is_owned
MownMutIsBorrowedSwapped(s) == cont[s].tag = "Owned"

MownMutIsBorrowed(s) == cont[s].tag = "Borrowed"

MownMutAsRef(s) == IF cont[s].tag = "Owned" THEN InCont(s) ELSE InStore(cont[s].ref)

\* mutant: the Owned arm hands out the caller's place
MownMutAsMutLeaking(s) == InStore(IF cont[s].tag = "Owned" THEN "x" ELSE cont[s].ref)

\* Owned(t) => t.borrow_mut(), Borrowed(t) => t
MownMutAsMut(s) == IF cont[s].tag = "Owned" THEN InCont(s) ELSE InStore(cont[s].ref)

\* mutant: copy-on-write, a borrowed container turns owned on as_mut
MownMutAsMutSelfPromoting(s) ==
    IF cont[s].tag = "Borrowed" THEN NewMownMutOwned(store[cont[s].ref]) ELSE cont[s]

\* *self after as_mut(&mut self): the match only borrows from it
MownMutAsMutSelf(s) == cont[s]

MownMutDeref(s) == MownMutAsRef(s)

\* mutant: deref_mut yields the container's own storage in both arms
MownMutDerefMutOwn(s) == InCont(s)

MownMutDerefMut(s) == MownMutAsMut(s)

MownMutEq(a, b) == TEq(Load(MownMutAsRef(a)), Load(MownMutAsRef(b)))

MownMutPartialCmp(a, b) == TPartialCmp(Load(MownMutAsRef(a)), Load(MownMutDeref(b)))

MownMutCmp(a, b) == TCmp(Load(MownMutAsRef(a)), Load(MownMutDeref(b)))

\* mutant: a derived Hash, which writes the discriminant first
MownMutHashDerived(s, h) ==
    THash(Load(MownMutAsRef(s)), h \o <<IF cont[s].tag = "Owned" THEN 0 ELSE 1>>)

MownMutHash(s, h) == THash(Load(MownMutAsRef(s)), h)

MownMutDisplay(s, f) == TDisplay(Load(MownMutAsRef(s)), f)

MownMutDebug(s, f) == TDebug(Load(MownMutAsRef(s)), f)

\* ----------------------------------------------------- the client's calls

NoRet == [op |-> "none", self |-> "none", other |-> "none", arg |-> <<>>, out |-> <<>>]

Call(op, s, o, arg, out) == [op |-> op, self |-> s, other |-> o, arg |-> arg, out |-> out]

Idle == ret.op = "none"

Live(s) == cont[s].kind # "None"

\* the borrows the compiler sees: &'a T is shared, &'a mut T is exclusive
SharedBorrowed(l) == \E s \in Slot : cont[s] = NewMownBorrowed(l)

MutBorrowed(l) == \E s \in Slot : cont[s] = NewMownMutBorrowed(l)

\* a write of v through the reference r, c being the containers at that time
WriteAt(r, v, c) ==
    IF r.space = "store"
    THEN store' = [store EXCEPT ![r.at] = v] /\ cont' = c
    ELSE cont' = [c EXCEPT ![r.at].val = v] /\ UNCHANGED store

NoHist == [on |-> FALSE, seq |-> <<>>]

\* hasher states and formatter buffers a call may start from
HasherStates == {<<>>, <<72>>}

Init ==
    /\ store \in {[x |-> v, y |-> Fixed] : v \in Val}
    /\ cont = [s \in Slot |-> Dead]
    /\ ret = NoRet
    /\ hist = [s \in Slot |-> NoHist]

\* let c = Mown::Owned(v)
ConstructMownOwned(s, v) ==
    /\ Idle /\ ~Live(s)
    /\ cont' = [cont EXCEPT ![s] = NewMownOwned(v)]
    /\ ret' = Call("new", s, "none", v, "Owned")
    /\ UNCHANGED <<store, hist>>

\* let c = Mown::Borrowed(&l)
ConstructMownBorrowed(s, l) ==
    /\ Idle /\ ~Live(s) /\ ~MutBorrowed(l)
    /\ cont' = [cont EXCEPT ![s] = NewMownBorrowed(l)]
    /\ ret' = Call("new", s, "none", <<>>, "Borrowed")
    /\ UNCHANGED <<store, hist>>

\* let c = MownMut::Owned(v)
ConstructMownMutOwned(s, v) ==
    /\ Idle /\ ~Live(s)
    /\ cont' = [cont EXCEPT ![s] = NewMownMutOwned(v)]
    /\ ret' = Call("new", s, "none", v, "Owned")
    /\ hist' = [hist EXCEPT ![s] = [on |-> v = <<>>, seq |-> <<>>]]
    /\ UNCHANGED store

\* let c = MownMut::Borrowed(&mut l)
ConstructMownMutBorrowed(s, l) ==
    /\ Idle /\ ~Live(s) /\ ~MutBorrowed(l) /\ ~SharedBorrowed(l)
    /\ cont' = [cont EXCEPT ![s] = NewMownMutBorrowed(l)]
    /\ ret' = Call("new", s, "none", <<>>, "Borrowed")
    /\ UNCHANGED <<store, hist>>

\* the container goes out of scope: an owned value dies with it, a referent does not
Drop(s) ==
    /\ Idle /\ Live(s)
    /\ cont' = [cont EXCEPT ![s] = Dead]
    /\ ret' = Call("drop", s, "none", <<>>, cont[s].ref)
    /\ hist' = [hist EXCEPT ![s] = NoHist]
    /\ UNCHANGED store

\* the caller reads its own place, which no container borrows mutably
OwnerRead(l) ==
    /\ Idle /\ ~MutBorrowed(l)
    /\ ret' = Call("owner_read", "none", "none", <<l>>, store[l])
    /\ UNCHANGED <<store, cont, hist>>

IsOwned(s) ==
    /\ Idle /\ Live(s)
    /\ ret' = Call("is_owned", s, "none", <<>>,
                   IF cont[s].kind = "Mown" THEN MownIsOwned(s) ELSE MownMutIsOwned(s))
    /\ UNCHANGED <<store, cont, hist>>

IsBorrowed(s) ==
    /\ Idle /\ Live(s)
    /\ ret' = Call("is_borrowed", s, "none", <<>>,
                   IF cont[s].kind = "Mown" THEN MownIsBorrowed(s) ELSE MownMutIsBorrowed(s))
    /\ UNCHANGED <<store, cont, hist>>

AsRef(s) ==
    /\ Idle /\ Live(s)
    /\ ret' = Call("as_ref", s, "none", <<>>,
                   IF cont[s].kind = "Mown" THEN MownAsRef(s) ELSE MownMutAsRef(s))
    /\ UNCHANGED <<store, cont, hist>>

Deref(s) ==
    /\ Idle /\ Live(s)
    /\ ret' = Call("deref", s, "none", <<>>,
                   IF cont[s].kind = "Mown" THEN MownDeref(s) ELSE MownMutDeref(s))
    /\ UNCHANGED <<store, cont, hist>>

\* a == b
Eq(a, b) ==
    /\ Idle /\ Live(a) /\ Live(b) /\ cont[a].kind = cont[b].kind
    /\ ret' = Call("eq", a, b, <<>>,
                   IF cont[a].kind = "Mown" THEN MownEq(a, b) ELSE MownMutEq(a, b))
    /\ UNCHANGED <<store, cont, hist>>

PartialCmp(a, b) ==
    /\ Idle /\ Live(a) /\ Live(b) /\ cont[a].kind = cont[b].kind
    /\ ret' = Call("partial_cmp", a, b, <<>>,
                   IF cont[a].kind = "Mown" THEN MownPartialCmp(a, b) ELSE MownMutPartialCmp(a, b))
    /\ UNCHANGED <<store, cont, hist>>

Cmp(a, b) ==
    /\ Idle /\ Live(a) /\ Live(b) /\ cont[a].kind = cont[b].kind
    /\ ret' = Call("cmp", a, b, <<>>,
                   IF cont[a].kind = "Mown" THEN MownCmp(a, b) ELSE MownMutCmp(a, b))
    /\ UNCHANGED <<store, cont, hist>>

\* c.hash(&mut h), h a hasher that was fed `h` so far
Hash(s, h) ==
    /\ Idle /\ Live(s)
    /\ ret' = Call("hash", s, "none", h,
                   IF cont[s].kind = "Mown" THEN MownHash(s, h) ELSE MownMutHash(s, h))
    /\ UNCHANGED <<store, cont, hist>>

\* format!("{}", c)
Display(s) ==
    /\ Idle /\ Live(s)
    /\ ret' = Call("display", s, "none", <<>>,
                   IF cont[s].kind = "Mown" THEN MownDisplay(s, <<>>) ELSE MownMutDisplay(s, <<>>))
    /\ UNCHANGED <<store, cont, hist>>

\* format!("{:?}", c)
Debug(s) ==
    /\ Idle /\ Live(s)
    /\ ret' = Call("debug", s, "none", <<>>,
                   IF cont[s].kind = "Mown" THEN MownDebug(s, <<>>) ELSE MownMutDebug(s, <<>>))
    /\ UNCHANGED <<store, cont, hist>>

\* if let Some(m) = c.as_mut() { *m = v }, c a Mown
AssignMown(s, v) ==
    /\ Idle /\ cont[s].kind = "Mown"
    /\ LET m == MownAsMut(s)
           c == [cont EXCEPT ![s] = MownAsMutSelf(s)]
       IN  /\ IF m.some THEN WriteAt(m.v, v, c) ELSE cont' = c /\ store' = store
           /\ ret' = Call("assign", s, "none", v, m)
    /\ hist' = hist

\* *c.as_mut() = v, c a MownMut
AssignMownMut(s, v) ==
    /\ Idle /\ cont[s].kind = "MownMut"
    /\ LET m == MownMutAsMut(s)
           c == [cont EXCEPT ![s] = MownMutAsMutSelf(s)]
       IN  /\ WriteAt(m, v, c)
           /\ ret' = Call("assign", s, "none", v, Some(m))
    /\ hist' = [hist EXCEPT ![s] = NoHist]

\* c.as_mut().push(e), c a MownMut
PushAsMut(s, e) ==
    /\ Idle /\ cont[s].kind = "MownMut"
    /\ LET m == MownMutAsMut(s)
           c == [cont EXCEPT ![s] = MownMutAsMutSelf(s)]
       IN  /\ Len(Load(m)) < MaxLen
           /\ WriteAt(m, Append(Load(m), e), c)
           /\ ret' = Call("push", s, "none", <<e>>, Some(m))
    /\ hist' = [hist EXCEPT ![s].seq = IF hist[s].on THEN Append(@, e) ELSE @]

\* c.push(e), c a MownMut: the method call goes through deref_mut
PushDerefMut(s, e) ==
    /\ Idle /\ cont[s].kind = "MownMut"
    /\ LET m == MownMutDerefMut(s)
           c == [cont EXCEPT ![s] = MownMutAsMutSelf(s)]
       IN  /\ Len(Load(m)) < MaxLen
           /\ WriteAt(m, Append(Load(m), e), c)
           /\ ret' = Call("push", s, "none", <<e>>, Some(m))
    /\ hist' = [hist EXCEPT ![s].seq = IF hist[s].on THEN Append(@, e) ELSE @]

\* the client is done with the result of its call
Return ==
    /\ ~Idle
    /\ ret' = NoRet
    /\ UNCHANGED <<store, cont, hist>>

Next ==
    \/ \E s \in Slot, v \in Val : ConstructMownOwned(s, v)
    \/ \E s \in Slot, l \in Loc : ConstructMownBorrowed(s, l)
    \/ \E s \in Slot, v \in Val : ConstructMownMutOwned(s, v)
    \/ \E s \in Slot, l \in MutLoc : ConstructMownMutBorrowed(s, l)
    \/ \E s \in Slot : Drop(s)
    \/ \E l \in Loc : OwnerRead(l)
    \/ \E s \in Slot : IsOwned(s)
    \/ \E s \in Slot : IsBorrowed(s)
    \/ \E s \in Slot : AsRef(s)
    \/ \E s \in Slot : Deref(s)
    \/ \E a, b \in Slot : Eq(a, b)
    \/ \E a, b \in Slot : PartialCmp(a, b)
    \/ \E a, b \in Slot : Cmp(a, b)
    \/ \E s \in Slot, h \in HasherStates : Hash(s, h)
    \/ \E s \in Slot : Display(s)
    \/ \E s \in Slot : Debug(s)
    \/ \E s \in Slot, v \in Val : AssignMown(s, v)
    \/ \E s \in Slot, v \in Val : AssignMownMut(s, v)
    \/ \E s \in Slot, e \in Elem : PushAsMut(s, e)
    \/ \E s \in Slot, e \in Elem : PushDerefMut(s, e)
    \/ Return

Spec == Init /\ [][Next]_vars

\* ------------------------------------------- examples/sized.rs, unsized.rs

\* "Hello\n" and "World!"
Trigger == <<72, 101, 108, 108, 111, 10>>
Replacement == <<87, 111, 114, 108, 100, 33>>

\* what the examples may read from standard input: a prefix of the trigger,
\* then a short tail
Inputs == {SubSeq(Trigger, 1, n) \o tl : n \in 0..Len(Trigger), tl \in SeqsUpTo(Elem, MaxTail)}

\* mutant: the trigger compared without its line feed
responseNoLineFeed(l) ==
    IF store[l] = SubSeq(Trigger, 1, Len(Trigger) - 1)
    THEN NewMownOwned(Replacement) ELSE NewMownBorrowed(l)

\* fn response(input: &String) -> Mown<String>, called with &l
response(l) == IF store[l] = Trigger THEN NewMownOwned(Replacement) ELSE NewMownBorrowed(l)

InitResponse ==
    /\ store \in {[x |-> v, y |-> Fixed] : v \in Inputs}
    /\ cont = [s \in Slot |-> Dead]
    /\ ret = NoRet
    /\ hist = [s \in Slot |-> NoHist]

\* examples/sized.rs: let output = response(&buffer)
ResponseSized ==
    /\ Idle /\ ~Live("a")
    /\ cont' = [cont EXCEPT !["a"] = response("x")]
    /\ ret' = Call("response", "a", "none", <<"sized">>, <<>>)
    /\ UNCHANGED <<store, hist>>

\* examples/unsized.rs: let output = response(buffer.as_ref())
ResponseUnsized ==
    /\ Idle /\ ~Live("a")
    /\ cont' = [cont EXCEPT !["a"] = response("x")]
    /\ ret' = Call("response", "a", "none", <<"unsized">>, <<>>)
    /\ UNCHANGED <<store, hist>>

\* println!("{}", output)
Println ==
    /\ ret.op = "response"
    /\ ret' = Call("println", "a", "none", ret.arg, MownDisplay("a", <<>>) \o <<10>>)
    /\ UNCHANGED <<store, cont, hist>>

\* println!("{:?}", output)
PrintlnDebug ==
    /\ ret.op = "response"
    /\ ret' = Call("println_debug", "a", "none", ret.arg, MownDebug("a", <<>>) \o <<10>>)
    /\ UNCHANGED <<store, cont, hist>>

NextResponse == ResponseSized \/ ResponseUnsized \/ Println \/ PrintlnDebug

SpecResponse == InitResponse /\ [][NextResponse]_vars

\* ---------------------------------------------------------------- claims

\* the value a container holds: its own, or its referent's
Held(s) == IF cont[s].tag = "Owned" THEN cont[s].val ELSE store[cont[s].ref]

MixedPair(a, b) == cont[a].tag = "Owned" /\ cont[b].tag = "Borrowed"

\* C1: a == b returns the underlying type's equality on the two held values,
\* whatever the variants; Owned(v) == Borrowed(&v) is true when v == v is.
EqVariantBlind ==
    ret.op = "eq" =>
        /\ ret.out = TEq(Held(ret.self), Held(ret.other))
        /\ (Held(ret.self) = Held(ret.other) /\ TEq(Held(ret.self), Held(ret.self)))
               => ret.out = TRUE

EqVariantBlindWitness ==
    /\ ret.op = "eq" /\ ret.out = TRUE
    /\ MixedPair(ret.self, ret.other) /\ Held(ret.self) # <<>>

\* C2: the hash of a container is the hash of the value it holds, and every
\* container equal to it, of either variant, feeds the same hasher the same way.
HashConsistent ==
    ret.op = "hash" =>
        /\ ret.out = THash(Held(ret.self), ret.arg)
        /\ \A b \in Slot :
               (cont[b].kind = "Mown" /\ cont[ret.self].kind = "Mown" /\ MownEq(ret.self, b))
                   => MownHash(b, ret.arg) = ret.out
        /\ \A b \in Slot :
               (cont[b].kind = "MownMut" /\ cont[ret.self].kind = "MownMut" /\ MownMutEq(ret.self, b))
                   => MownMutHash(b, ret.arg) = ret.out

HashConsistentWitness ==
    /\ ret.op = "hash" /\ cont[ret.self].kind = "MownMut" /\ ret.arg # <<>>
    /\ \E b \in Slot : /\ cont[b].kind = "MownMut" /\ cont[b].tag # cont[ret.self].tag
                       /\ MownMutEq(ret.self, b) /\ Held(b) # <<>>

\* C3: partial_cmp and cmp return the underlying type's result on the two held
\* values, whatever the variants, and cmp is Equal exactly when == is true.
OrderVariantBlind ==
    /\ ret.op = "partial_cmp" => ret.out = TPartialCmp(Held(ret.self), Held(ret.other))
    /\ ret.op = "cmp" =>
           /\ ret.out = TCmp(Held(ret.self), Held(ret.other))
           /\ (ret.out = "Equal") <=>
                  IF cont[ret.self].kind = "Mown"
                  THEN MownEq(ret.self, ret.other) ELSE MownMutEq(ret.self, ret.other)

OrderVariantBlindWitness ==
    /\ ret.op = "cmp" /\ ret.out = "Greater"
    /\ cont[ret.self].kind = "Mown" /\ MixedPair(ret.self, ret.other)

\* C4: response(input) is Owned("World!") when the input is "Hello\n" and
\* Borrowed(input) otherwise; what is printed with {} is the replacement, or the
\* input unchanged, and with {:?} the Debug form of that same value.
ResponseFormats ==
    LET shown == IF store["x"] = Trigger THEN Replacement ELSE store["x"]
    IN  /\ ret.op \in {"response", "println", "println_debug"} =>
               cont["a"] = IF store["x"] = Trigger
                           THEN NewMownOwned(Replacement) ELSE NewMownBorrowed("x")
        /\ ret.op = "println" => ret.out = shown \o <<10>>
        /\ ret.op = "println_debug" => ret.out = TDebug(shown, <<>>) \o <<10>>

ResponseFormatsWitness ==
    /\ ret.op = "println" /\ store["x"] = Trigger
    /\ cont["a"].tag = "Owned" /\ ret.out = Replacement \o <<10>>

\* C5: on every live container is_owned() and is_borrowed() disagree, is_owned()
\* is true exactly on Owned and is_borrowed() exactly on Borrowed, and a call of
\* either changes neither the containers nor the caller's places.
Complementary ==
    /\ \A s \in Slot : cont[s].kind = "Mown" =>
           /\ MownIsOwned(s) # MownIsBorrowed(s)
           /\ MownIsOwned(s) = (cont[s].tag = "Owned")
           /\ MownIsBorrowed(s) = (cont[s].tag = "Borrowed")
    /\ \A s \in Slot : cont[s].kind = "MownMut" =>
           /\ MownMutIsOwned(s) # MownMutIsBorrowed(s)
           /\ MownMutIsOwned(s) = (cont[s].tag = "Owned")
           /\ MownMutIsBorrowed(s) = (cont[s].tag = "Borrowed")
    /\ ret.op = "is_owned" => ret.out = (cont[ret.self].tag = "Owned")
    /\ ret.op = "is_borrowed" => ret.out = (cont[ret.self].tag = "Borrowed")

InspectionIsPure ==
    ret'.op \in {"is_owned", "is_borrowed"} => (store' = store /\ cont' = cont)

\* C5 as a formula: Complementary in every state, InspectionIsPure in every step
IsOwnedIsBorrowedComplementary == []Complementary /\ [][InspectionIsPure]_vars

IsOwnedIsBorrowedWitness ==
    /\ ret.op = "is_borrowed" /\ ret.out = TRUE
    /\ cont[ret.self] = NewMownMutBorrowed("x")

\* C6: a live container keeps its variant (and its referent) in every step;
\* it leaves it only by being dropped.
KeepsVariant(s) ==
    Live(s) =>
        \/ /\ cont'[s].kind = cont[s].kind
           /\ cont'[s].tag = cont[s].tag
           /\ cont'[s].ref = cont[s].ref
        \/ ret'.op = "drop" /\ ret'.self = s /\ cont'[s] = Dead

\* C6 as a formula: every step keeps the variant of every live container
VariantFixed == [][\A s \in Slot : KeepsVariant(s)]_vars

VariantFixedWitness ==
    /\ ret.op = "push" /\ cont[ret.self] = NewMownMutBorrowed("x")
    /\ Len(store["x"]) = MaxLen

\* C7: Mown::as_mut() on Borrowed is None and changes nothing; on Owned it is
\* Some view of the owned value, a write through which lands in the container.
MownAsMutStep ==
    (ret'.op = "assign" /\ cont[ret'.self].kind = "Mown") =>
        IF cont[ret'.self].tag = "Borrowed"
        THEN ~ret'.out.some /\ ret'.out = None /\ store' = store /\ cont' = cont
        ELSE /\ ret'.out.some /\ ret'.out = Some(InCont(ret'.self))
             /\ cont'[ret'.self] = [cont[ret'.self] EXCEPT !.val = ret'.arg]
             /\ store' = store

\* C7 as a formula: every step that is a Mown::as_mut call is a MownAsMutStep
MownAsMutOptional == [][MownAsMutStep]_vars

MownAsMutOptionalWitness ==
    /\ ret.op = "assign" /\ cont[ret.self] = NewMownBorrowed("x")
    /\ ret.out = None /\ ret.arg # store["x"]

\* C8: after a write through MownMut's as_mut() or deref_mut(), in either
\* variant, as_ref() reads what was written; a container built as Owned(empty)
\* and pushed to reads back the pushed elements in the order of the pushes.
MownMutWriteStep ==
    \A s \in Slot :
        (ret'.op \in {"assign", "push"} /\ ret'.self = s /\ cont[s].kind = "MownMut") =>
            /\ ret'.out.some
            /\ Load(MownMutAsRef(s))' =
                   IF ret'.op = "assign" THEN ret'.arg
                   ELSE Append(Load(MownMutAsRef(s)), ret'.arg[1])

PushedInOrder ==
    \A s \in Slot : hist[s].on =>
        cont[s].kind = "MownMut" /\ Load(MownMutAsRef(s)) = hist[s].seq

\* C8 as a formula: pushes read back in order, and every write is read back
ReadsObserveWrites == []PushedInOrder /\ [][MownMutWriteStep]_vars

ReadsObserveWritesWitness ==
    /\ ret.op = "push" /\ hist[ret.self].on
    /\ hist[ret.self].seq = <<72, 10>>
    /\ Load(MownMutAsRef(ret.self)) = <<72, 10>>

\* C9: as_ref() and the dereference return a reference to the held value: the
\* owned value is read through it, and for Borrowed(r) it is r itself.
AsRefReturnsHeld ==
    ret.op \in {"as_ref", "deref"} =>
        /\ Load(ret.out) = Held(ret.self)
        /\ cont[ret.self].tag = "Borrowed" => ret.out = InStore(cont[ret.self].ref)
        /\ cont[ret.self].tag = "Owned" => ret.out = InCont(ret.self)

AsRefReturnsHeldWitness ==
    /\ ret.op = "as_ref" /\ cont[ret.self] = NewMownBorrowed("y")
    /\ ret.out = InStore("y")

\* C10: a write through MownMut::Borrowed(&mut l) changes l and nothing else; a
\* write through an Owned container changes that container's value and nothing
\* else; a place no MownMut borrows is changed by no step; a drop leaves every
\* place as it is, and the owner then reads what was written.
WriteFrameStep ==
    /\ ret'.op \in {"assign", "push"} =>
           LET s == ret'.self
               new == IF ret'.op = "assign" THEN ret'.arg ELSE Append(Held(s), ret'.arg[1])
           IN  IF cont[s] = NewMownMutBorrowed(cont[s].ref)
               THEN /\ store' = [store EXCEPT ![cont[s].ref] = new]
                    /\ cont' = cont
               ELSE IF cont[s].tag = "Owned"
               THEN /\ store' = store
                    /\ cont' = [cont EXCEPT ![s].val = new]
               ELSE store' = store /\ cont' = cont
    /\ \A l \in Loc : ~MutBorrowed(l) => store'[l] = store[l]
    /\ ret'.op = "drop" => store' = store
    /\ ret'.op = "owner_read" => ret'.out = store[ret'.arg[1]]

\* C10 as a formula: every step writes only where WriteFrameStep allows
WriteThroughFrame == [][WriteFrameStep]_vars

WriteThroughFrameWitness ==
    /\ ret.op = "assign" /\ cont[ret.self] = NewMownMutBorrowed("x")
    /\ store["x"] = ret.arg /\ ret.arg # <<>>
    /\ \E b \in Slot : cont[b].tag = "Owned" /\ cont[b].val # ret.arg

====
